---- MODULE Spec2Model ----
(***************************************************************************)
(* Server tracing middleware of net/ghttp (ghttp_middleware_tracing.go):   *)
(* internalMiddlewareServerTracing and getSpanContext, run inside a        *)
(* middleware chain.  Strings are sequences: a header value is a sequence  *)
(* of characters, a body a sequence of byte values, a trace identifier a   *)
(* sequence of nibble values.                                              *)
(***************************************************************************)
EXTENDS Integers, Sequences, FiniteSets, TLC

(* ------------------------------ bounds -------------------------------- *)

\* gtrace.MaxContentLogSize(): the configured capture limit N, scaled down.
MaxContentLogSize == 2

\* Number of hex characters of a trace identifier (32 in OpenTelemetry), scaled down.
TraceIDHexLen == 2

\* Longest middleware chain.
MaxChain == 3

(* ----------------------------- constants ------------------------------ *)

tracingEventHttpRequest == "http.request"
tracingEventHttpRequestHeaders == "http.request.headers"
tracingEventHttpRequestBaggage == "http.request.baggage"
tracingEventHttpRequestBody == "http.request.body"
tracingEventHttpResponse == "http.response"
tracingEventHttpResponseHeaders == "http.response.headers"
tracingEventHttpResponseBody == "http.response.body"

\* The "..." suffix handed to gstr.StrLimit, as byte values.
TruncSuffix == <<46, 46, 46>>

(* ------------------------------ strings ------------------------------- *)

\* All sequences over S of length at most n.
SeqUpTo(S, n) == UNION {[1..k -> S] : k \in 0..n}

\* Characters a header value is drawn from: the zero digit, a non-zero
\* lower-case hex digit, an upper-case hex digit and a non-hex letter.
HeaderChars == {"0", "a", "A", "g"}

\* Lower-case hex digits, the only ones trace.TraceIDFromHex accepts.
IsHexChar(c) == c \in {"0", "a"}

HexVal(c) == IF c = "a" THEN 10 ELSE 0

HexChar(n) == IF n = 10 THEN "a" ELSE IF n = 15 THEN "f" ELSE "0"

\* TraceID.String(): the hex encoding of a trace identifier.
TraceIDString(tid) == [k \in 1..Len(tid) |-> HexChar(tid[k])]

\* A body or buffer of k bytes; byte i has value i, so that a prefix differs
\* from every other selection of bytes.
Bytes(k) == [i \in 1..k |-> i]

\* gstr.StrLimit(str, length, suffix): a string longer than length is cut to
\* its first length bytes followed by suffix; any other is returned as is.
StrLimit(str, length, suffix) ==
    IF Len(str) > length THEN SubSeq(str, 1, length) \o suffix ELSE str

(* ------------------------------- state -------------------------------- *)

VARIABLES
    provider,   \* "default" or "real": what gtrace.IsUsingDefaultProvider() reports
    spans,      \* every span the tracer has started, in start order
    idSeq,      \* the last identifier the identifier generators handed out
    issued,     \* the identifiers tracing.NewSpanID() has returned
    rq          \* the requests being served, by request number

vars == <<provider, spans, idSeq, issued, rq>>

(* ------------------------------ contexts ------------------------------ *)

\* trace.SpanContext; the zero value is the invalid span context.
NoSC == [traceID |-> <<>>, spanID |-> 0, flags |-> 0, remote |-> FALSE]

IsZeroID(tid) == \A k \in 1..Len(tid) : tid[k] = 0

\* SpanContext.IsValid(): a non-zero trace identifier and a non-zero span identifier.
IsValidSC(sc) == Len(sc.traceID) = TraceIDHexLen /\ ~IsZeroID(sc.traceID) /\ sc.spanID # 0

\* A context.Context as the values this middleware and the tracer read from it:
\* the handled marker, the current span context, the span (an index into
\* spans, 0 for none) and the baggage.
EmptyCtx == [marker |-> FALSE, sc |-> NoSC, span |-> 0, baggage |-> <<>>]

\* A middleware that never finds the marker.
HasMarkerNever(ctx) == FALSE

\* A marker kept for the process: set once any request has been handled.
HasMarkerOfAnyRequest(ctx) == ctx.marker \/ \E j \in DOMAIN rq : rq[j].ctx.marker

\* ctx.Value(tracingMiddlewareHandled) != nil
HasMarker(ctx) == ctx.marker

\* Line 55 left out: the context goes on unmarked.
WithMarkerDropped(ctx) == ctx

\* context.WithValue(ctx, tracingMiddlewareHandled, 1)
WithMarker(ctx) == [ctx EXCEPT !.marker = TRUE]

\* trace.ContextWithRemoteSpanContext(ctx, sc)
ContextWithRemoteSpanContext(ctx, sc) ==
    [ctx EXCEPT !.sc = [sc EXCEPT !.remote = TRUE], !.span = 0]

(* ------------------------------ headers ------------------------------- *)

\* http.Header as the four headers the middleware and the propagator read.
\* An absent header is the empty value, as http.Header.Get returns it.
NoHeader == [trace |-> <<>>, traceparent |-> <<>>, baggage |-> <<>>, encoding |-> ""]

\* A traceparent value: <<trace id hex, parent span id, trace flags>>, or <<>>
\* when absent.
\* propagation.TraceContext discards a value whose span context is invalid.
TraceParentSC(tp) ==
    IF Len(tp) = 3 /\ Len(tp[1]) = TraceIDHexLen /\ \A k \in 1..Len(tp[1]) : IsHexChar(tp[1][k])
    THEN [traceID |-> [k \in 1..Len(tp[1]) |-> HexVal(tp[1][k])], spanID |-> tp[2],
          flags |-> tp[3], remote |-> TRUE]
    ELSE NoSC

\* otel.GetTextMapPropagator().Extract(ctx, propagation.HeaderCarrier(header))
\* with the trace-context and baggage propagators: a valid traceparent becomes
\* the remote span context, a baggage header becomes the context's baggage,
\* and no other header is read.
Extract(ctx, header) ==
    LET sc == TraceParentSC(header.traceparent)
        c1 == IF IsValidSC(sc) THEN ContextWithRemoteSpanContext(ctx, sc) ELSE ctx
    IN  IF header.baggage # <<>> THEN [c1 EXCEPT !.baggage = header.baggage] ELSE c1

\* trace.TraceIDFromHex: <<ok, id>>; fails on a wrong length, on a character
\* that is no lower-case hex digit, and on the all-zero identifier.
TraceIDFromHex(h) ==
    LET id == [k \in 1..Len(h) |-> HexVal(h[k])]
    IN  IF Len(h) = TraceIDHexLen /\ (\A k \in 1..Len(h) : IsHexChar(h[k])) /\ ~IsZeroID(id)
        THEN <<TRUE, id>>
        ELSE <<FALSE, <<>>>>

\* getSpanContext without the custom header: standard extraction only.
getSpanContextStandardOnly(ctx, header, sid) == Extract(ctx, header)

\* getSpanContext giving up on a custom header that does not parse.
getSpanContextNoFallback(ctx, header, sid) ==
    LET parsed == TraceIDFromHex(header.trace)
    IN  IF header.trace = <<>> THEN Extract(ctx, header)
        ELSE IF ~parsed[1] THEN ctx
        ELSE ContextWithRemoteSpanContext(ctx, [traceID |-> parsed[2], spanID |-> sid, flags |-> 0, remote |-> TRUE])

\* getSpanContext(ctx, header); sid is the value tracing.NewSpanID() returns.
\* getSpanContext setting the custom trace identifier on top of what standard
\* extraction returns.
getSpanContextOverExtract(ctx, header, sid) ==
    LET parsed == TraceIDFromHex(header.trace)
    IN  IF header.trace = <<>> \/ ~parsed[1] THEN Extract(ctx, header)
        ELSE ContextWithRemoteSpanContext(Extract(ctx, header),
                 [traceID |-> parsed[2], spanID |-> sid, flags |-> 0, remote |-> TRUE])

getSpanContext(ctx, header, sid) ==
    LET traceID == header.trace
        parsed == TraceIDFromHex(traceID)
    IN  IF traceID = <<>> THEN Extract(ctx, header)
        ELSE IF ~parsed[1] THEN Extract(ctx, header)
        ELSE ContextWithRemoteSpanContext(ctx, [traceID |-> parsed[2], spanID |-> sid, flags |-> 0, remote |-> TRUE])

\* httputil.HeaderToMap followed by gconv.String: the headers that are present,
\* as name/value pairs.
HeaderToMap(header) ==
    (IF header.trace # <<>> THEN << <<"Mf-X-Trace-Id", header.trace>> >> ELSE <<>>)
    \o (IF header.traceparent # <<>> THEN << <<"Traceparent", header.traceparent>> >> ELSE <<>>)
    \o (IF header.baggage # <<>> THEN << <<"Baggage", header.baggage>> >> ELSE <<>>)
    \o (IF header.encoding # "" THEN << <<"Content-Encoding", header.encoding>> >> ELSE <<>>)

\* A span's status before SetStatus.
Unset == [code |-> "Unset", description |-> <<>>]

\* gtrace.CommonLabels(): the process-level attributes.
CommonLabels == << <<"hostname", "host">> >>

\* r.Error: <<>> for nil, or one error with its message and stack.
NoError == <<>>

Errors == { <<[msg |-> "boom", stack |-> <<>>]>>,
            <<[msg |-> "boom", stack |-> <<"1. handler.go:10">>]>> }

\* fmt.Sprintf(`%+v`, err): the message, then the stack lines if the error has any.
FormatError(err) == <<err[1].msg>> \o err[1].stack

\* The request body stream: the bytes it still delivers, whether the read
\* after them fails instead of reporting end of stream, and whether it is
\* the transport's own stream.
TransportBody(data, err) == [data |-> data, err |-> err, orig |-> TRUE]

\* ioutil.ReadAll(r.Body): the bytes read before end of stream or the error.
ReadAll(body) == [bytes |-> body.data, err |-> body.err]

\* The stream after ReadAll: nothing is left to deliver.
Drained(body) == [body EXCEPT !.data = <<>>]

\* utils.NewReadCloser(content, false): a fresh stream delivering content once.
NewReadCloser(content) == [data |-> content, err |-> FALSE, orig |-> FALSE]

\* A middleware chain: "T" is internalMiddlewareServerTracing, "U" a user
\* middleware or handler.  The server installs the tracing middleware first.
Chains ==
    {c \in SeqUpTo({"T", "U"}, MaxChain) :
        /\ Len(c) >= 1
        /\ c[1] = "T"
        /\ Cardinality({k \in 1..Len(c) : c[k] = "U"}) <= 1}

\* One invocation of a chain element: its kind, where it is, and for the
\* tracing middleware its locals: the span it started (0 for none), the
\* marked context of line 55 and the parent context getSpanContext returned.
Frame(kind) == [kind |-> kind, pc |-> "call", span |-> 0, ctx |-> EmptyCtx, parent |-> EmptyCtx]

\* A request as the server hands it to the first middleware of its chain.
NewRequest(header, body, chain, ctx) ==
    [header |-> header,
     body |-> body,
     ctx |-> ctx,
     error |-> NoError,
     resp |-> [encoding |-> "", buffer |-> <<>>],
     chain |-> chain,
     stack |-> <<Frame(chain[1])>>,
     panicking |-> FALSE,
     ctxReplaced |-> FALSE,
     calls |-> [k \in 1..Len(chain) |-> IF k = 1 THEN 1 ELSE 0],
     sent |-> body,
     seen |-> <<>>,
     log |-> <<>>]

\* An entry of the request's record of observable operations.
LogData(op, span, arg, data) == [op |-> op, span |-> span, arg |-> arg, data |-> data]

LogOp(op, span, arg) == LogData(op, span, arg, <<>>)

Top(q) == q.stack[Len(q.stack)]

SetTop(q, f) == [q.stack EXCEPT ![Len(q.stack)] = f]

Pop(q) == SubSeq(q.stack, 1, Len(q.stack) - 1)

\* r.Middleware.Next() called by the top frame: runs the next element of the
\* chain, if there is one, and returns when that element returns.
MiddlewareNext(stack, chain) ==
    IF Len(stack) < Len(chain) THEN Append(stack, Frame(chain[Len(stack) + 1])) ELSE stack

\* How often each element of the chain has been invoked, after the
\* r.Middleware.Next() of the top frame of stack.
Invoked(calls, stack, chain) ==
    IF Len(stack) < Len(chain) THEN [calls EXCEPT ![Len(stack) + 1] = @ + 1] ELSE calls

Running(i, kind, pcs) ==
    /\ rq[i].stack # <<>>
    /\ ~rq[i].panicking
    /\ Top(rq[i]).kind = kind
    /\ Top(rq[i]).pc \in pcs

(* ------------------------------- tracer ------------------------------- *)

\* Whether getSpanContext reaches tracing.NewSpanID() for this header.
CallsNewSpanID(header) == header.trace # <<>> /\ TraceIDFromHex(header.trace)[1]

\* tracing.NewSpanID(): an identifier no earlier call returned.
NewSpanID(seq) == seq + 1

\* A check that never reports the default provider.
IsUsingDefaultProviderNever == FALSE

\* gtrace.IsUsingDefaultProvider()
IsUsingDefaultProvider == provider = "default"

\* The identifier generator's trace identifier for a root span.
NewRootTraceID(n) == [k \in 1..TraceIDHexLen |-> IF k = 1 THEN 15 ELSE n]

\* tr.Start(parent, name, ...): the new span is a child of the parent context's
\* span context when that is valid and the root of a new trace otherwise.
StartSpan(parent, owner, id) ==
    [owner |-> owner,
     traceID |-> IF IsValidSC(parent.sc) THEN parent.sc.traceID ELSE NewRootTraceID(id),
     spanID |-> id,
     parent |-> parent.sc,
     attrs |-> <<>>,
     events |-> <<>>,
     status |-> Unset,
     ends |-> 0]

\* trace.ContextWithSpan: the context tr.Start returns.  A span with a valid
\* parent keeps the parent's trace flags, a root span is sampled.
ContextWithSpan(ctx, span, idx) ==
    [ctx EXCEPT !.sc = [traceID |-> span.traceID, spanID |-> span.spanID,
                        flags |-> IF IsValidSC(span.parent) THEN span.parent.flags ELSE 1,
                        remote |-> FALSE],
                !.span = idx]

\* span.AddEvent(name, trace.WithAttributes(attrs...)); a span that has ended records nothing.
AddEvent(span, name, attrs) ==
    IF span.ends > 0 THEN span
    ELSE [span EXCEPT !.events = Append(@, [name |-> name, attrs |-> attrs])]

\* span.SetStatus(codes.Error, description)
SetStatus(span, description) ==
    IF span.ends > 0 THEN span
    ELSE [span EXCEPT !.status = [code |-> "Error", description |-> description]]

\* span.End()
EndSpan(span) == [span EXCEPT !.ends = @ + 1]

(* --------------------- internalMiddlewareServerTracing ---------------- *)

\* Lines 55-73 with the parent context derived from r.Context() as it was,
\* not from the marked context.
BeginUnmarked(q, owner) ==
    LET sid == NewSpanID(idSeq)
        used == IF CallsNewSpanID(q.header) THEN 1 ELSE 0
        parent == getSpanContext(q.ctx, q.header, sid)
        id == idSeq + used + 1
        span == [StartSpan(parent, owner, id) EXCEPT !.attrs = CommonLabels]
        idx == Len(spans) + 1
    IN  [span |-> span,
         idx |-> idx,
         marked |-> WithMarker(q.ctx),
         parent |-> parent,
         ctx |-> ContextWithSpan(parent, span, idx),
         idSeq |-> id,
         issued |-> IF used = 1 THEN issued \cup {sid} ELSE issued]

\* Lines 55-73: mark the context, derive the parent context, start the span,
\* set the common labels and store the span's context on the request.
\* Gives the span, its index, the request's new context and the identifiers used.
Begin(q, owner) ==
    LET ctx1 == WithMarker(q.ctx)
        sid == NewSpanID(idSeq)
        used == IF CallsNewSpanID(q.header) THEN 1 ELSE 0
        parent == getSpanContext(ctx1, q.header, sid)
        id == idSeq + used + 1
        span == [StartSpan(parent, owner, id) EXCEPT !.attrs = CommonLabels]
        idx == Len(spans) + 1
    IN  [span |-> span,
         idx |-> idx,
         marked |-> ctx1,
         parent |-> parent,
         ctx |-> ContextWithSpan(parent, span, idx),
         idSeq |-> id,
         issued |-> IF used = 1 THEN issued \cup {sid} ELSE issued]

\* The skip path returning early without r.Middleware.Next().
TracingSkipNoNext(i) ==
    /\ Running(i, "T", {"call"})
    /\ HasMarker(rq[i].ctx)
    /\ rq' = [rq EXCEPT ![i] = [@ EXCEPT !.stack = SetTop(rq[i], [Top(rq[i]) EXCEPT !.pc = "skip"])]]
    /\ UNCHANGED <<provider, spans, idSeq, issued>>

\* The skip path capturing the request body as lines 87-88 do.
TracingSkipReadsBody(i) ==
    /\ Running(i, "T", {"call"})
    /\ HasMarker(rq[i].ctx)
    /\ LET q == rq[i]
           st == SetTop(q, [Top(q) EXCEPT !.pc = "skip"])
       IN  rq' = [rq EXCEPT ![i] = [q EXCEPT
                    !.body = NewReadCloser(ReadAll(q.body).bytes),
                    !.stack = MiddlewareNext(st, q.chain),
                    !.calls = Invoked(@, st, q.chain),
                    !.log = Append(@, LogOp("next", 0, "skip"))]]
    /\ UNCHANGED <<provider, spans, idSeq, issued>>

\* Lines 50-51: the context carries the marker; delegate and do nothing else.
TracingSkip(i) ==
    /\ Running(i, "T", {"call"})
    /\ HasMarker(rq[i].ctx)
    /\ LET q == rq[i]
           st == SetTop(q, [Top(q) EXCEPT !.pc = "skip"])
       IN  rq' = [rq EXCEPT ![i] = [q EXCEPT
                    !.stack = MiddlewareNext(st, q.chain),
                    !.calls = Invoked(@, st, q.chain),
                    !.log = Append(@, LogOp("next", 0, "skip"))]]
    /\ UNCHANGED <<provider, spans, idSeq, issued>>

\* Lines 55-77: the default provider; start the span and delegate.
TracingFastPath(i) ==
    /\ Running(i, "T", {"call"})
    /\ ~HasMarker(rq[i].ctx)
    /\ IsUsingDefaultProvider
    /\ LET q == rq[i]
           b == Begin(q, i)
           st == SetTop(q, [Top(q) EXCEPT !.pc = "fast", !.span = b.idx, !.ctx = b.marked, !.parent = b.parent])
       IN  /\ spans' = Append(spans, b.span)
           /\ idSeq' = b.idSeq
           /\ issued' = b.issued
           /\ rq' = [rq EXCEPT ![i] = [q EXCEPT
                    !.ctx = b.ctx,
                    !.stack = MiddlewareNext(st, q.chain),
                    !.calls = Invoked(@, st, q.chain),
                    !.log = @ \o <<LogOp("start", b.idx, ""), LogOp("next", b.idx, "fast")>>]]
    /\ UNCHANGED provider

\* A capture that does not look at Content-Encoding.
CapturesAnyRequestBody(header) == TRUE

\* Lines 86-87: the request body is captured when Content-Encoding is empty.
CapturesRequestBody(header) == header.encoding = ""

\* The captured, cut content put back instead of the content read.
RestoredBodyLimited(content) ==
    NewReadCloser(SubSeq(content, 1, IF Len(content) > MaxContentLogSize
                                     THEN MaxContentLogSize ELSE Len(content)))

\* Line 90: the stream put back on the request after the read.
RestoredBody(content) == NewReadCloser(content)

\* The whole body as the attribute, with no limit.
RequestBodyAttrWhole(content) == content

\* Lines 91-95: the http.request.body attribute.
RequestBodyAttr(content) == StrLimit(content, MaxContentLogSize, TruncSuffix)

\* Lines 81-84: the attributes every http.request event has.
RequestAttrs(header, ctx) ==
    << <<tracingEventHttpRequestHeaders, HeaderToMap(header)>>,
       <<tracingEventHttpRequestBaggage, ctx.baggage>> >>

\* Lines 55-103: a real provider; start the span, record the http.request
\* event, with the body if it is captured, and delegate.
TracingFullPath(i) ==
    /\ Running(i, "T", {"call"})
    /\ ~HasMarker(rq[i].ctx)
    /\ ~IsUsingDefaultProvider
    /\ LET q == rq[i]
           b == Begin(q, i)
           capture == CapturesRequestBody(q.header)
           read == ReadAll(q.body)
           reqAttrs == IF capture
                       THEN Append(RequestAttrs(q.header, b.ctx),
                                   <<tracingEventHttpRequestBody, RequestBodyAttr(read.bytes)>>)
                       ELSE RequestAttrs(q.header, b.ctx)
           span == AddEvent(b.span, tracingEventHttpRequest, reqAttrs)
           st == SetTop(q, [Top(q) EXCEPT !.pc = "full", !.span = b.idx, !.ctx = b.marked, !.parent = b.parent])
       IN  /\ spans' = Append(spans, span)
           /\ idSeq' = b.idSeq
           /\ issued' = b.issued
           /\ rq' = [rq EXCEPT ![i] = [q EXCEPT
                    !.ctx = b.ctx,
                    !.body = IF capture THEN RestoredBody(read.bytes) ELSE @,
                    !.stack = MiddlewareNext(st, q.chain),
                    !.calls = Invoked(@, st, q.chain),
                    !.log = @ \o <<LogOp("start", b.idx, "")>>
                              \o (IF capture
                                  THEN <<LogData("readBody", b.idx,
                                                 IF read.err THEN "error" ELSE "ok", read.bytes)>>
                                  ELSE <<>>)
                              \o <<LogOp("event", b.idx, tracingEventHttpRequest),
                                   LogOp("next", b.idx, "full")>>]]
    /\ UNCHANGED provider

\* Lines 52-53: the skipping invocation returns.
TracingSkipReturn(i) ==
    /\ Running(i, "T", {"skip"})
    /\ rq' = [rq EXCEPT ![i] = [@ EXCEPT !.stack = Pop(rq[i])]]
    /\ UNCHANGED <<provider, spans, idSeq, issued>>

\* Line 78 and the deferred span.End() of line 68.
TracingFastReturn(i) ==
    /\ Running(i, "T", {"fast"})
    /\ LET q == rq[i]
           s == Top(q).span
       IN  /\ spans' = [spans EXCEPT ![s] = EndSpan(@)]
           /\ rq' = [rq EXCEPT ![i] = [q EXCEPT
                    !.stack = Pop(q),
                    !.log = Append(@, LogOp("end", s, ""))]]
    /\ UNCHANGED <<provider, idSeq, issued>>

\* Lines 114-118: the response body is captured when Content-Encoding is empty.
CapturesResponseBody(resp) == resp.encoding = ""

\* The response buffer as it was before the chain ran: empty.
ResponseBodyAttrBeforeChain(buffer) == <<>>

\* Line 119: the http.response.body attribute.
ResponseBodyAttr(buffer) == StrLimit(buffer, MaxContentLogSize, TruncSuffix)

\* No error check after the chain returned.
RecordErrorNever(span, error) == span

\* Lines 106-108: the span after the error check.
RecordError(span, error) ==
    IF error # NoError THEN SetStatus(span, FormatError(error)) ELSE span

\* Lines 105-125 and the deferred span.End(): after the chain returned, set
\* the error status, record the http.response event and end the span.
TracingFullReturn(i) ==
    /\ Running(i, "T", {"full"})
    /\ LET q == rq[i]
           s == Top(q).span
           s1 == RecordError(spans[s], q.error)
           headers == << <<tracingEventHttpResponseHeaders,
                           HeaderToMap([NoHeader EXCEPT !.encoding = q.resp.encoding])>> >>
           respAttrs == IF CapturesResponseBody(q.resp)
                        THEN Append(headers,
                                    <<tracingEventHttpResponseBody, ResponseBodyAttr(q.resp.buffer)>>)
                        ELSE headers
           s2 == AddEvent(s1, tracingEventHttpResponse, respAttrs)
       IN  /\ spans' = [spans EXCEPT ![s] = EndSpan(s2)]
           /\ rq' = [rq EXCEPT ![i] = [q EXCEPT
                    !.stack = Pop(q),
                    !.log = @ \o (IF q.error # NoError THEN <<LogOp("status", s, "")>> ELSE <<>>)
                              \o <<LogOp("event", s, tracingEventHttpResponse),
                                   LogOp("end", s, "")>>]]
    /\ UNCHANGED <<provider, idSeq, issued>>

\* span.End() called at the end of the function body instead of deferred.
EndNotDeferred(sp, s) == sp

\* Line 68, defer span.End(): what a panic passing through the invocation
\* that started span s (0: none, the skip path) leaves of the spans.
DeferredEnd(sp, s) == IF s # 0 THEN [sp EXCEPT ![s] = EndSpan(@)] ELSE sp

\* A middleware that recovers the panic in a deferred function.
TracingUnwindRecover(i) ==
    /\ rq[i].stack # <<>>
    /\ rq[i].panicking
    /\ Top(rq[i]).kind = "T"
    /\ LET q == rq[i]
           s == Top(q).span
       IN  /\ spans' = DeferredEnd(spans, s)
           /\ rq' = [rq EXCEPT ![i] = [q EXCEPT
                    !.panicking = FALSE,
                    !.stack = Pop(q),
                    !.log = IF s # 0 THEN Append(@, LogOp("end", s, "panic")) ELSE @]]
    /\ UNCHANGED <<provider, idSeq, issued>>

\* A panic raised below passes through the middleware: nothing is recovered,
\* and the deferred span.End() of line 68 runs if the span was started.
TracingUnwind(i) ==
    /\ rq[i].stack # <<>>
    /\ rq[i].panicking
    /\ Top(rq[i]).kind = "T"
    /\ LET q == rq[i]
           s == Top(q).span
       IN  /\ spans' = DeferredEnd(spans, s)
           /\ rq' = [rq EXCEPT ![i] = [q EXCEPT
                    !.stack = Pop(q),
                    !.log = IF s # 0 THEN Append(@, LogOp("end", s, "panic")) ELSE @]]
    /\ UNCHANGED <<provider, idSeq, issued>>

(* ------------------------ the rest of the chain ----------------------- *)

\* The chains hold at most one user middleware, so no panic passes through one.
\* A user middleware acts in a fixed order, each step at most once: read the
\* body, set the request's error, write the response, replace the request's
\* context, then call the next middleware, return or panic.
HandlerAt(i, pcs) == Running(i, "U", pcs)

HandlerStep(q, pc) == SetTop(q, [Top(q) EXCEPT !.pc = pc])

\* The handler reads r.Body to its end.
HandlerReadBody(i) ==
    /\ HandlerAt(i, {"call"})
    /\ LET q == rq[i]
       IN  rq' = [rq EXCEPT ![i] = [q EXCEPT
                    !.seen = Append(@, ReadAll(q.body)),
                    !.body = Drained(@),
                    !.stack = HandlerStep(q, "read"),
                    !.log = Append(@, LogOp("handler", 0, "read"))]]
    /\ UNCHANGED <<provider, spans, idSeq, issued>>

\* The handler records an error on the request (r.SetError).
HandlerSetError(i) ==
    /\ HandlerAt(i, {"call", "read"})
    /\ \E e \in Errors :
        rq' = [rq EXCEPT ![i] = [@ EXCEPT
                    !.error = e,
                    !.stack = HandlerStep(rq[i], "error"),
                    !.log = Append(@, LogOp("handler", 0, "error"))]]
    /\ UNCHANGED <<provider, spans, idSeq, issued>>

\* The handler writes the response: its Content-Encoding header and its buffer.
HandlerWrite(i) ==
    /\ HandlerAt(i, {"call", "read", "error"})
    /\ \E n \in 0..(MaxContentLogSize + 1), e \in {"", "gzip"} :
        rq' = [rq EXCEPT ![i] = [@ EXCEPT
                    !.resp = [encoding |-> e, buffer |-> Bytes(n)],
                    !.stack = HandlerStep(rq[i], "write"),
                    !.log = Append(@, LogOp("handler", 0, "write"))]]
    /\ UNCHANGED <<provider, spans, idSeq, issued>>

\* The handler replaces the request's context (r.SetCtx) with one that does
\* not derive from the context the tracing middleware stored.
HandlerSetCtx(i) ==
    /\ HandlerAt(i, {"call", "read", "error", "write"})
    /\ rq' = [rq EXCEPT ![i] = [@ EXCEPT
                    !.ctx = EmptyCtx,
                    !.ctxReplaced = TRUE,
                    !.stack = HandlerStep(rq[i], "ctx"),
                    !.log = Append(@, LogOp("handler", 0, "ctx"))]]
    /\ UNCHANGED <<provider, spans, idSeq, issued>>

\* The handler calls r.Middleware.Next().
HandlerNext(i) ==
    /\ HandlerAt(i, {"call", "read", "error", "write", "ctx"})
    /\ LET q == rq[i]
       IN  rq' = [rq EXCEPT ![i] = [q EXCEPT
                    !.stack = MiddlewareNext(HandlerStep(q, "next"), q.chain),
                    !.calls = Invoked(@, q.stack, q.chain)]]
    /\ UNCHANGED <<provider, spans, idSeq, issued>>

\* The handler returns.
HandlerReturn(i) ==
    /\ HandlerAt(i, {"call", "read", "error", "write", "ctx", "next"})
    /\ rq' = [rq EXCEPT ![i] = [@ EXCEPT !.stack = Pop(rq[i])]]
    /\ UNCHANGED <<provider, spans, idSeq, issued>>

\* The handler panics.
HandlerPanic(i) ==
    /\ HandlerAt(i, {"call", "read", "error", "write", "ctx"})
    /\ rq' = [rq EXCEPT ![i] = [@ EXCEPT
                    !.panicking = TRUE,
                    !.stack = Pop(rq[i]),
                    !.log = Append(@, LogOp("handler", 0, "panic"))]]
    /\ UNCHANGED <<provider, spans, idSeq, issued>>

(* --------------------------- specifications --------------------------- *)

\* A valid trace identifier in hex, and the all-zero one.
ValidHex == [k \in 1..TraceIDHexLen |-> "a"]

ZeroHex == [k \in 1..TraceIDHexLen |-> "0"]

\* The request bodies: up to one byte more than the capture limit, read
\* to the end or failing after the bytes.
Bodies == {TransportBody(Bytes(n), e) : n \in 0..(MaxContentLogSize + 1), e \in BOOLEAN}

\* Requests of the main specification: with or without Content-Encoding.
MainHeaders == {[NoHeader EXCEPT !.encoding = e] : e \in {"", "gzip"}}

Init ==
    /\ provider \in {"default", "real"}
    /\ spans = <<>>
    /\ idSeq = 0
    /\ issued = {}
    /\ \E h \in MainHeaders, b \in Bodies, c \in Chains :
        rq = [i \in {1} |-> NewRequest(h, b, c, EmptyCtx)]

Next ==
    \/ \E i \in DOMAIN rq : TracingSkip(i)
    \/ \E i \in DOMAIN rq : TracingFastPath(i)
    \/ \E i \in DOMAIN rq : TracingFullPath(i)
    \/ \E i \in DOMAIN rq : TracingSkipReturn(i)
    \/ \E i \in DOMAIN rq : TracingFastReturn(i)
    \/ \E i \in DOMAIN rq : TracingFullReturn(i)
    \/ \E i \in DOMAIN rq : TracingUnwind(i)
    \/ \E i \in DOMAIN rq : HandlerReadBody(i)
    \/ \E i \in DOMAIN rq : HandlerSetError(i)
    \/ \E i \in DOMAIN rq : HandlerWrite(i)
    \/ \E i \in DOMAIN rq : HandlerSetCtx(i)
    \/ \E i \in DOMAIN rq : HandlerNext(i)
    \/ \E i \in DOMAIN rq : HandlerReturn(i)
    \/ \E i \in DOMAIN rq : HandlerPanic(i)

Spec == Init /\ [][Next]_vars

\* The specification of trace-context extraction: every custom trace header
\* up to one character longer than a trace identifier, with and without a
\* traceparent and a baggage header, on a context with or without a span
\* context of its own, through a chain of two tracing middlewares around a
\* handler that may replace the request's context before it delegates.
TraceHeaders == SeqUpTo(HeaderChars, TraceIDHexLen + 1)

TraceParents == {<<>>, <<ValidHex, 9, 1>>, <<ZeroHex, 9, 1>>, <<ValidHex, 0, 1>>}

CtxHeaders ==
    {[NoHeader EXCEPT !.trace = t, !.traceparent = tp, !.baggage = bg] :
        t \in TraceHeaders, tp \in TraceParents, bg \in {<<>>, <<"k=v">>}}

\* What r.Context() holds when the middleware is entered.
EntryContexts ==
    {EmptyCtx,
     [EmptyCtx EXCEPT !.sc = [traceID |-> NewRootTraceID(0), spanID |-> 8, flags |-> 1, remote |-> FALSE],
                      !.baggage = <<"own=1">>]}

InitCtx ==
    /\ provider \in {"default", "real"}
    /\ spans = <<>>
    /\ idSeq = 0
    /\ issued = {}
    /\ \E h \in CtxHeaders, c \in EntryContexts :
        rq = [i \in {1} |-> NewRequest(h, TransportBody(Bytes(1), FALSE), <<"T", "U", "T">>, c)]

NextCtx ==
    \/ \E i \in DOMAIN rq : TracingSkip(i)
    \/ \E i \in DOMAIN rq : TracingFastPath(i)
    \/ \E i \in DOMAIN rq : TracingFullPath(i)
    \/ \E i \in DOMAIN rq : TracingSkipReturn(i)
    \/ \E i \in DOMAIN rq : TracingFastReturn(i)
    \/ \E i \in DOMAIN rq : TracingFullReturn(i)
    \/ \E i \in DOMAIN rq : HandlerSetCtx(i)
    \/ \E i \in DOMAIN rq : HandlerNext(i)
    \/ \E i \in DOMAIN rq : HandlerReturn(i)

SpecCtx == InitCtx /\ [][NextCtx]_vars

\* The specification of concurrent requests: two requests the server handles
\* at once, each in its own goroutine with its own *Request, the steps of the
\* two interleaved in any order.  The requests differ in body and headers; each
\* runs the tracing middleware twice around a handler that may set an error
\* and write a response.
ConcBody(i) == [k \in 1..i |-> 10 * i + k]

ConcHeaders == <<[NoHeader EXCEPT !.trace = ValidHex], [NoHeader EXCEPT !.baggage = <<"k=v">>]>>

InitConc ==
    /\ provider \in {"default", "real"}
    /\ spans = <<>>
    /\ idSeq = 0
    /\ issued = {}
    /\ rq = [i \in {1, 2} |->
                NewRequest(ConcHeaders[i], TransportBody(ConcBody(i), FALSE), <<"T", "T", "U">>, EmptyCtx)]

NextConc ==
    \/ \E i \in DOMAIN rq : TracingSkip(i)
    \/ \E i \in DOMAIN rq : TracingFastPath(i)
    \/ \E i \in DOMAIN rq : TracingFullPath(i)
    \/ \E i \in DOMAIN rq : TracingSkipReturn(i)
    \/ \E i \in DOMAIN rq : TracingFastReturn(i)
    \/ \E i \in DOMAIN rq : TracingFullReturn(i)
    \/ \E i \in DOMAIN rq : HandlerSetError(i)
    \/ \E i \in DOMAIN rq : HandlerWrite(i)
    \/ \E i \in DOMAIN rq : HandlerNext(i)
    \/ \E i \in DOMAIN rq : HandlerReturn(i)

SpecConc == InitConc /\ [][NextConc]_vars

(* ------------------------------- claims ------------------------------- *)

Done(i) == rq[i].stack = <<>>

SpansOf(i) == {s \in 1..Len(spans) : spans[s].owner = i}

\* The positions in request i's log of the operations named op.
LogAt(i, op) == {k \in 1..Len(rq[i].log) : rq[i].log[k].op = op}

\* Every invocation of the tracing middleware logs its delegation once.
Invocations(i) == Cardinality(LogAt(i, "next"))

\* Whether a frame of the request's stack still holds span s.
Active(s) == \E k \in 1..Len(rq[spans[s].owner].stack) : rq[spans[s].owner].stack[k].span = s

HasAttr(attrs, key) == \E k \in 1..Len(attrs) : attrs[k][1] = key

AttrValues(attrs, key) == {attrs[k][2] : k \in {j \in 1..Len(attrs) : attrs[j][1] = key}}

EventsNamed(s, name) == {k \in 1..Len(spans[s].events) : spans[s].events[k].name = name}

\* C1 (idempotency): as long as no handler replaced the request's context,
\* the invocations of the tracing middleware for a request start exactly one
\* span however many they are, and an invocation entered straight from the
\* delegation of another one never starts a span.
C1_OneSpanPerRequest ==
    \A i \in DOMAIN rq :
        /\ (~rq[i].ctxReplaced /\ Invocations(i) >= 1) => Cardinality(SpansOf(i)) = 1
        /\ \A k \in LogAt(i, "start") : k > 1 => rq[i].log[k - 1].op # "next"

\* Two nested invocations have run to the end and one span exists.
C1_Witness ==
    \E i \in DOMAIN rq :
        /\ Done(i)
        /\ ~rq[i].ctxReplaced
        /\ Invocations(i) >= 2
        /\ \E k \in LogAt(i, "next") : rq[i].log[k].arg = "skip"
        /\ Cardinality(SpansOf(i)) = 1

\* C2 (span end): a span has been ended exactly once as soon as the invocation
\* that started it has exited, by its normal return, by the fast path's early
\* return or by a panic passing through it; until then it has not been ended,
\* and it is never ended twice.
C2_SpanEndedExactlyOnce ==
    \A s \in 1..Len(spans) : spans[s].ends = IF Active(s) THEN 0 ELSE 1

\* A panic has passed through an invocation that had started a span, and the
\* span is ended.
C2_Witness ==
    \E i \in DOMAIN rq :
        /\ Done(i)
        /\ rq[i].panicking
        /\ \E k \in LogAt(i, "end") :
            rq[i].log[k].arg = "panic" /\ spans[rq[i].log[k].span].ends = 1

\* A header value that is a valid trace identifier: of the identifier's
\* length, lower-case hex digits only, not all zero.
IsValidTraceHeader(h) ==
    /\ Len(h) = TraceIDHexLen
    /\ \A k \in 1..Len(h) : h[k] \in {"0", "a"}
    /\ \E k \in 1..Len(h) : h[k] # "0"

\* C3 (valid custom header): when MF-X-TRACE-ID holds a valid trace
\* identifier, the span started for the request has that trace identifier,
\* and its parent is a remote span context whose span identifier
\* tracing.NewSpanID() returned for this very call: it is valid, comes from
\* no header, and no other span has it as its parent or as its own.
C3_ValidCustomHeader ==
    \A s \in 1..Len(spans) :
        LET h == rq[spans[s].owner].header
            p == spans[s].parent
        IN  IsValidTraceHeader(h.trace) =>
                /\ TraceIDString(spans[s].traceID) = h.trace
                /\ TraceIDString(p.traceID) = h.trace
                /\ p.remote
                /\ p.spanID # 0
                /\ p.spanID \in issued
                /\ h.traceparent # <<>> => p.spanID # h.traceparent[2]
                /\ \A t \in 1..Len(spans) :
                       /\ spans[t].spanID # p.spanID
                       /\ t # s => spans[t].parent.spanID # p.spanID
                /\ Cardinality(issued) = Len(spans)

\* Two spans were started for a request whose valid custom trace header
\* names another trace than its valid traceparent header.
C3_Witness ==
    /\ Len(spans) = 2
    /\ \E i \in DOMAIN rq :
        /\ Done(i)
        /\ IsValidTraceHeader(rq[i].header.trace)
        /\ IsValidSC(TraceParentSC(rq[i].header.traceparent))
        /\ TraceParentSC(rq[i].header.traceparent).traceID # spans[1].traceID
        /\ spans[1].owner = i
        /\ spans[2].owner = i
        /\ spans[1].parent.spanID # spans[2].parent.spanID

\* C4 (fallback): when the custom trace header is absent or is no valid trace
\* identifier, the parent context getSpanContext returns is the one standard
\* extraction gives for the same context and the headers without the custom
\* header, and the invocation goes on to delegate with no error set on the request.
C4_FallbackIsStandardExtraction ==
    \A i \in DOMAIN rq :
        \A k \in 1..Len(rq[i].stack) :
            LET f == rq[i].stack[k]
                h == rq[i].header
            IN  (f.kind = "T" /\ f.pc \in {"fast", "full"} /\ ~IsValidTraceHeader(h.trace)) =>
                    /\ f.parent = Extract(f.ctx, [h EXCEPT !.trace = <<>>])
                    /\ HasMarker(f.parent)
                    /\ rq[i].error = NoError
                    /\ ~rq[i].panicking

\* An invocation is delegating after it fell back, on an all-zero custom
\* header, to the remote span context of a valid traceparent header.
C4_Witness ==
    \E i \in DOMAIN rq :
        /\ rq[i].header.trace = ZeroHex
        /\ rq[i].stack # <<>>
        /\ rq[i].stack[1].pc = "full"
        /\ IsValidSC(rq[i].stack[1].parent.sc)
        /\ rq[i].stack[1].parent.sc = TraceParentSC(rq[i].header.traceparent)
        /\ rq[i].stack[1].parent.baggage = rq[i].header.baggage
        /\ rq[i].header.baggage # <<>>

\* C5 (body non-destructiveness): a handler that reads r.Body receives the
\* bytes the transport delivered, whole, whatever their number; until a
\* handler reads it the body holds those bytes; and unless the middleware
\* captured the body, which it does on neither the fast path, nor the skip
\* path, nor with a Content-Encoding header, r.Body is the transport's stream
\* as it was.
C5_BodyNonDestructive ==
    \A i \in DOMAIN rq :
        LET q == rq[i]
        IN  /\ \A k \in 1..Len(q.seen) : q.seen[k].bytes = q.sent.data
            /\ q.seen = <<>> => q.body.data = q.sent.data
            /\ LogAt(i, "readBody") = {} => q.body.orig
            /\ (LogAt(i, "readBody") = {} /\ q.seen = <<>>) => q.body = q.sent
            /\ (provider = "default" \/ q.header.encoding # "") => LogAt(i, "readBody") = {}
            /\ \A k \in LogAt(i, "readBody") : k > 1 /\ q.log[k - 1].op = "start"

\* The middleware captured a body longer than the capture limit and a handler
\* then read all of it.
C5_Witness ==
    \E i \in DOMAIN rq :
        /\ Done(i)
        /\ LogAt(i, "readBody") # {}
        /\ Len(rq[i].sent.data) > MaxContentLogSize
        /\ Len(rq[i].seen) = 1
        /\ rq[i].seen[1].bytes = rq[i].sent.data
        /\ ~rq[i].body.orig

\* C6 (body-read failure): when the read of the request body fails, the
\* http.request event has no http.request.body attribute, the invocation
\* still delegates with no error or panic of its own, and a handler reading
\* the body gets what it would have got from the transport's stream: the
\* same bytes and the same read error.
C6_ReadFailureOmitsBody ==
    \A i \in DOMAIN rq :
        \A k \in LogAt(i, "readBody") :
            rq[i].log[k].arg = "error" =>
                /\ \A e \in EventsNamed(rq[i].log[k].span, tracingEventHttpRequest) :
                       ~HasAttr(spans[rq[i].log[k].span].events[e].attrs, tracingEventHttpRequestBody)
                /\ k + 2 <= Len(rq[i].log) /\ rq[i].log[k + 2].op = "next"
                /\ \A j \in 1..Len(rq[i].seen) : rq[i].seen[j] = ReadAll(rq[i].sent)

\* C7 (no-op fast path): under the default provider no span gets an event,
\* the request body is neither read nor replaced by the middleware, and yet
\* every span is started right before the chain is delegated to, is ended
\* only after that, and is ended once the request is through.
C7_NoOpFastPath ==
    provider = "default" =>
        \A i \in DOMAIN rq :
            LET log == rq[i].log
            IN  /\ \A s \in SpansOf(i) : spans[s].events = <<>>
                /\ LogAt(i, "event") = {}
                /\ LogAt(i, "readBody") = {}
                /\ rq[i].body.orig
                /\ \A k \in LogAt(i, "start") :
                       k < Len(log) /\ log[k + 1] = LogOp("next", log[k].span, "fast")
                /\ \A k \in LogAt(i, "end") :
                       \E j \in LogAt(i, "next") : j < k /\ log[j].span = log[k].span
                /\ Done(i) => \A s \in SpansOf(i) : spans[s].ends = 1

\* Under the default provider a request is through: its span was started and
\* ended, and the handler read the transport's own body stream.
C7_Witness ==
    /\ provider = "default"
    /\ \E i \in DOMAIN rq :
        /\ Done(i)
        /\ ~rq[i].panicking
        /\ SpansOf(i) # {}
        /\ \A s \in SpansOf(i) : spans[s].ends = 1
        /\ Len(rq[i].seen) = 1
        /\ Len(rq[i].seen[1].bytes) > 0

\* C8 as claimed (error propagation to span): whenever the chain returned to
\* an invocation that had started a span, the span's status is error with the
\* error's message if the request holds an error, and is not error if it holds none.
C8_ErrorAlwaysOnSpan ==
    \A i \in DOMAIN rq :
        \A k \in LogAt(i, "end") :
            rq[i].log[k].arg # "panic" =>
                LET st == spans[rq[i].log[k].span].status
                IN  /\ rq[i].error # NoError =>
                            st.code = "Error" /\ st.description[1] = rq[i].error[1].msg
                    /\ rq[i].error = NoError => st.code # "Error"

\* C8 as amended: with a provider other than the default one, whenever the
\* chain returned to an invocation that had started a span, the span's status
\* is error with the formatted error, which starts with its message, if the
\* request holds an error; with no error on the request, or under the default
\* provider, the status stays unset.
C8_ErrorOnSpanOfFullPath ==
    \A i \in DOMAIN rq :
        \A k \in LogAt(i, "end") :
            rq[i].log[k].arg # "panic" =>
                LET st == spans[rq[i].log[k].span].status
                    e == rq[i].error
                IN  /\ (provider # "default" /\ e # NoError) =>
                            /\ st.code = "Error"
                            /\ st.description = <<e[1].msg>> \o e[1].stack
                    /\ (provider = "default" \/ e = NoError) => st = Unset

\* On the full path a span ended with the error status of an error that has a stack.
C8_Witness ==
    \E i \in DOMAIN rq :
        /\ Done(i)
        /\ provider = "real"
        /\ rq[i].error # NoError
        /\ rq[i].error[1].stack # <<>>
        /\ \E s \in SpansOf(i) : spans[s].ends = 1 /\ spans[s].status.code = "Error"

\* C9 (encoded-body skip): of a request with a Content-Encoding header the
\* http.request events carry the headers attribute and no body attribute,
\* and its body is not read; http.response events of a response with a
\* Content-Encoding header carry the headers attribute and no body attribute.
C9_EncodedBodySkipped ==
    \A s \in 1..Len(spans) :
        LET q == rq[spans[s].owner]
        IN  /\ \A e \in EventsNamed(s, tracingEventHttpRequest) :
                q.header.encoding # "" =>
                    /\ ~HasAttr(spans[s].events[e].attrs, tracingEventHttpRequestBody)
                    /\ HasAttr(spans[s].events[e].attrs, tracingEventHttpRequestHeaders)
                    /\ LogAt(spans[s].owner, "readBody") = {}
                    /\ q.body.orig
            /\ \A e \in EventsNamed(s, tracingEventHttpResponse) :
                q.resp.encoding # "" =>
                    /\ ~HasAttr(spans[s].events[e].attrs, tracingEventHttpResponseBody)
                    /\ HasAttr(spans[s].events[e].attrs, tracingEventHttpResponseHeaders)

\* A span has both events, of a request and a response that both have a
\* Content-Encoding header and a body longer than the capture limit.
C9_Witness ==
    \E s \in 1..Len(spans) :
        LET q == rq[spans[s].owner]
        IN  /\ q.header.encoding # ""
            /\ q.resp.encoding # ""
            /\ Len(q.sent.data) > MaxContentLogSize
            /\ Len(q.resp.buffer) > MaxContentLogSize
            /\ EventsNamed(s, tracingEventHttpRequest) # {}
            /\ EventsNamed(s, tracingEventHttpResponse) # {}

\* What the claim wants captured of a body: its first MaxContentLogSize bytes
\* and the marker "..." if it is longer than that, the body itself otherwise.
C10_Expected(b) ==
    IF Len(b) > MaxContentLogSize
    THEN [k \in 1..(MaxContentLogSize + 3) |-> IF k <= MaxContentLogSize THEN b[k] ELSE 46]
    ELSE b

\* C10 (truncation): the http.request.body attribute is the body the
\* middleware read, cut as above, and that body is the transport's when no
\* handler ran before; the http.response.body attribute is the response
\* buffer, cut as above.
C10_Truncation ==
    \A i \in DOMAIN rq :
        LET log == rq[i].log
        IN  /\ \A k \in LogAt(i, "readBody") :
                LET ev == spans[log[k].span].events[1]
                IN  /\ ev.name = tracingEventHttpRequest
                    /\ AttrValues(ev.attrs, tracingEventHttpRequestBody) = {C10_Expected(log[k].data)}
                    /\ (\A j \in 1..k : log[j].op # "handler") => log[k].data = rq[i].sent.data
            /\ \A s \in SpansOf(i) :
                \A e \in EventsNamed(s, tracingEventHttpResponse) :
                    HasAttr(spans[s].events[e].attrs, tracingEventHttpResponseBody) =>
                        AttrValues(spans[s].events[e].attrs, tracingEventHttpResponseBody)
                            = {C10_Expected(rq[i].resp.buffer)}

\* A span captured a request body one byte over the limit, cut and marked,
\* and a response buffer of exactly the limit, whole.
C10_Witness ==
    \E s \in 1..Len(spans) :
        LET q == rq[spans[s].owner]
        IN  /\ Len(q.sent.data) = MaxContentLogSize + 1
            /\ Len(q.resp.buffer) = MaxContentLogSize
            /\ Len(spans[s].events) = 2
            /\ AttrValues(spans[s].events[1].attrs, tracingEventHttpRequestBody)
                   = {SubSeq(q.sent.data, 1, MaxContentLogSize) \o <<46, 46, 46>>}
            /\ AttrValues(spans[s].events[2].attrs, tracingEventHttpResponseBody)
                   = {q.resp.buffer}


\* The positions of the chain at which the tracing middleware has been
\* invoked and has run up to its delegation.
EnteredT(i) ==
    {k \in 1..Len(rq[i].chain) :
        /\ rq[i].chain[k] = "T"
        /\ rq[i].calls[k] >= 1
        /\ ~(k <= Len(rq[i].stack) /\ rq[i].stack[k].pc = "call")}

\* C11 (delegate exactly once): every invocation of the tracing middleware
\* has called r.Middleware.Next() exactly once when it has run up to its
\* delegation, on the skip path, the fast path and the full path, also after
\* a failed body read: the next element of the chain, if there is one, has
\* been invoked then, and no element of the chain is ever invoked twice.
C11_DelegatesExactlyOnce ==
    \A i \in DOMAIN rq :
        /\ \A k \in 1..Len(rq[i].chain) : rq[i].calls[k] <= 1
        /\ \A k \in EnteredT(i) : k < Len(rq[i].chain) => rq[i].calls[k + 1] = 1
        /\ Invocations(i) = Cardinality(EnteredT(i))

\* A request whose body read failed went through a full-path invocation, a
\* skipping invocation and a handler, each invoked once.
C11_Witness ==
    \E i \in DOMAIN rq :
        /\ Done(i)
        /\ Len(rq[i].chain) >= 3
        /\ \A k \in 1..Len(rq[i].chain) : rq[i].calls[k] = 1
        /\ \E k \in LogAt(i, "readBody") : rq[i].log[k].arg = "error"
        /\ \E k \in LogAt(i, "next") : rq[i].log[k].arg = "skip"
        /\ \E k \in LogAt(i, "next") : rq[i].log[k].arg = "full"
        /\ LogAt(i, "handler") # {}


\* Whether the element the frame at depth k of request i delegated to has
\* not acted yet: it has just been invoked, or the chain ends at k.
JustDelegated(i, k) ==
    \/ k = Len(rq[i].stack) /\ k = Len(rq[i].chain)
    \/ k + 1 = Len(rq[i].stack) /\ rq[i].stack[k + 1].pc = "call"

\* C12 (mark and propagate): an invocation that started a span, on the fast
\* path as on the full path, handed the marked context to getSpanContext and
\* got a marked parent context back for tr.Start, and at the moment it
\* delegates the request's context carries the marker and the span it started.
C12_MarkerAndSpanAtDelegation ==
    \A i \in DOMAIN rq :
        \A k \in 1..Len(rq[i].stack) :
            LET f == rq[i].stack[k]
            IN  (f.kind = "T" /\ f.pc \in {"fast", "full"}) =>
                    /\ f.ctx.marker
                    /\ f.parent.marker
                    /\ f.span \in 1..Len(spans)
                    /\ JustDelegated(i, k) =>
                            /\ rq[i].ctx.marker
                            /\ rq[i].ctx.span = f.span
                            /\ rq[i].ctx.sc.traceID = spans[f.span].traceID
                            /\ rq[i].ctx.sc.spanID = spans[f.span].spanID

\* A fast-path invocation has just delegated to a handler, and the request's
\* context carries the marker and the span.
C12_Witness ==
    \E i \in DOMAIN rq :
        /\ Len(rq[i].stack) = 2
        /\ rq[i].stack[1].pc = "fast"
        /\ rq[i].stack[2].kind = "U"
        /\ rq[i].stack[2].pc = "call"
        /\ rq[i].ctx.marker
        /\ rq[i].ctx.span = rq[i].stack[1].span
        /\ rq[i].ctx.span # 0


\* The operations request i's log holds for span s, in order: the name of
\* the event for an event, the name of the operation for any other.
SpanOps(i, s) ==
    LET OfSpan(e) == e.span = s
        ops == SelectSeq(rq[i].log, OfSpan)
    IN  [k \in 1..Len(ops) |-> IF ops[k].op = "event" THEN ops[k].arg ELSE ops[k].op]

\* The order the claim gives for a span of the full path whose chain returned.
C13_Order(q) ==
    <<"start">>
    \o (IF q.header.encoding = "" THEN <<"readBody">> ELSE <<>>)
    \o <<tracingEventHttpRequest, "next">>
    \o (IF q.error # NoError THEN <<"status">> ELSE <<>>)
    \o <<tracingEventHttpResponse, "end">>

IsPrefix(a, b) == Len(a) <= Len(b) /\ SubSeq(b, 1, Len(a)) = a

\* C13 (event ordering): with a provider other than the default one, the
\* operations on a span through which no panic passed come in the order span
\* start, http.request event, delegation, error status if the request holds
\* an error, http.response event, span end; nothing follows the end; the span
\* ends with exactly the two events; no handler acted between the span's start
\* and its http.request event; and the http.response event holds the
\* response's headers and, unless the response is encoded, its buffer.
C13_EventOrder ==
    provider # "default" =>
        \A s \in 1..Len(spans) :
            LET i == spans[s].owner
                q == rq[i]
                ops == SpanOps(i, s)
                ev == spans[s].events
            IN  (\A k \in LogAt(i, "end") : q.log[k].span = s => q.log[k].arg # "panic") =>
                    /\ IsPrefix(ops, C13_Order(q))
                    /\ Len(ops) >= 3
                    /\ spans[s].ends = 1 <=> ops = C13_Order(q)
                    /\ \A h \in LogAt(i, "handler"), b \in LogAt(i, "start"), e \in LogAt(i, "event") :
                           (q.log[b].span = s /\ q.log[e].span = s /\ b < h) => e < h \/ q.log[e].arg # tracingEventHttpRequest
                    /\ Len(ev) >= 1 /\ ev[1].name = tracingEventHttpRequest
                    /\ spans[s].ends = 0 => Len(ev) = 1
                    /\ spans[s].ends = 1 =>
                           /\ Len(ev) = 2
                           /\ ev[2].name = tracingEventHttpResponse
                           /\ AttrValues(ev[2].attrs, tracingEventHttpResponseHeaders)
                                  = {IF q.resp.encoding = "" THEN <<>>
                                     ELSE << <<"Content-Encoding", q.resp.encoding>> >>}
                           /\ AttrValues(ev[2].attrs, tracingEventHttpResponseBody)
                                  = IF q.resp.encoding = "" THEN {C10_Expected(q.resp.buffer)} ELSE {}
                           /\ (q.error # NoError) <=> (spans[s].status.code = "Error")

\* A span of the full path ended after the handler had set an error and
\* written a response: all six operations are in the log.
C13_Witness ==
    /\ provider = "real"
    /\ \E s \in 1..Len(spans) :
        /\ spans[s].ends = 1
        /\ rq[spans[s].owner].error # NoError
        /\ rq[spans[s].owner].resp.buffer # <<>>
        /\ SpanOps(spans[s].owner, s)
               = <<"start", "readBody", tracingEventHttpRequest, "next", "status",
                   tracingEventHttpResponse, "end">>


\* What a step of request i leaves alone when it neither starts nor touches a
\* span and leaves the request's context, body, error and response as they are.
OnlyControlMoves(i) ==
    /\ spans' = spans
    /\ idSeq' = idSeq
    /\ issued' = issued
    /\ rq'[i].ctx = rq[i].ctx
    /\ rq'[i].body = rq[i].body
    /\ rq'[i].error = rq[i].error
    /\ rq'[i].resp = rq[i].resp
    /\ rq'[i].header = rq[i].header

\* C14 (re-entry skip): a step of the interceptor entered with the marker in
\* the request's context starts no span, changes no span, and leaves the
\* request's context, body, error and response as they are; all it does is
\* delegate to the next element of the chain, and when that returns it
\* returns, again changing nothing.
C14_SkipChangesNothing ==
    [][\A i \in DOMAIN rq :
          /\ (Running(i, "T", {"call"}) /\ rq[i].ctx.marker /\ rq'[i] # rq[i]) =>
                /\ OnlyControlMoves(i)
                /\ rq'[i].stack
                     = MiddlewareNext(SetTop(rq[i], [Top(rq[i]) EXCEPT !.pc = "skip"]), rq[i].chain)
                /\ Top(rq[i]).span = 0
          /\ (Running(i, "T", {"skip"}) /\ rq'[i] # rq[i]) =>
                /\ OnlyControlMoves(i)
                /\ rq'[i].stack = Pop(rq[i])
      ]_vars

\* The nested interceptor has skipped and delegated to the handler, which
\* observes the context holding the outer invocation's span; the body is the
\* stream the outer invocation installed and there is the one span.
C14_Witness ==
    \E i \in DOMAIN rq :
        /\ Len(rq[i].stack) = 3
        /\ rq[i].stack[1].pc = "full"
        /\ rq[i].stack[2].pc = "skip"
        /\ rq[i].stack[3].kind = "U"
        /\ rq[i].ctx.span = rq[i].stack[1].span
        /\ rq[i].stack[2].span = 0
        /\ Cardinality(SpansOf(i)) = 1
        /\ Len(spans[rq[i].stack[1].span].events) = 1
        /\ rq[i].body = NewReadCloser(rq[i].sent.data)
        /\ rq[i].sent.data # <<>>


\* The span indices request i's log, frames and context mention.
SpansSeenBy(i) ==
    ({rq[i].log[k].span : k \in 1..Len(rq[i].log)}
        \cup {rq[i].stack[k].span : k \in 1..Len(rq[i].stack)}
        \cup {rq[i].ctx.span}) \ {0}

\* C15 (per-request isolation): in every interleaving of two concurrent
\* requests each request that has entered the interceptor has exactly one
\* span; a request's first invocation never skips, whatever the other request
\* has marked; a request only ever holds and operates on its own span; and
\* what a span holds (its parent trace, its events, the captured request body,
\* the response body, the error status) is what the request that started it
\* holds, with as many events as that request added.
C15_RequestIsolation ==
    \A i \in DOMAIN rq :
        LET q == rq[i] IN
        /\ Cardinality(SpansOf(i)) = (IF q.log = <<>> THEN 0 ELSE 1)
        /\ q.log # <<>> => q.log[1].op = "start"
        /\ \A k \in LogAt(i, "next") : q.log[k].arg = "skip" => \E b \in LogAt(i, "start") : b < k
        /\ SpansSeenBy(i) \subseteq SpansOf(i)
        /\ \A s \in SpansOf(i) :
            /\ Len(spans[s].events)
                 = Cardinality({k \in LogAt(i, "event") : q.log[k].span = s})
            /\ spans[s].ends = Cardinality({k \in LogAt(i, "end") : q.log[k].span = s})
            /\ IF IsValidTraceHeader(q.header.trace)
                 THEN spans[s].traceID = TraceIDFromHex(q.header.trace)[2]
                 ELSE spans[s].parent = NoSC
            /\ \A e \in EventsNamed(s, tracingEventHttpRequest) :
                 /\ AttrValues(spans[s].events[e].attrs, tracingEventHttpRequestBody)
                        = {C10_Expected(q.sent.data)}
                 /\ AttrValues(spans[s].events[e].attrs, tracingEventHttpRequestHeaders)
                        = {HeaderToMap(q.header)}
                 /\ q.body = NewReadCloser(q.sent.data)
            /\ \A e \in EventsNamed(s, tracingEventHttpResponse) :
                 AttrValues(spans[s].events[e].attrs, tracingEventHttpResponseBody)
                     = IF q.resp.encoding = "" THEN {C10_Expected(q.resp.buffer)} ELSE {}
            /\ spans[s].status.code = "Error" => spans[s].status.description = FormatError(q.error)
            /\ (spans[s].ends = 1 /\ provider # "default") =>
                 ((spans[s].status.code = "Error") <=> (q.error # NoError))

\* Both requests are done, the second one started its span first and the
\* first ended while the second was still running; one failed with an error
\* and the other did not, and the two wrote different responses.
C15_Witness ==
    /\ provider = "real"
    /\ Done(1) /\ Done(2)
    /\ Len(spans) = 2
    /\ spans[1].owner = 2 /\ spans[2].owner = 1
    /\ rq[1].error # NoError /\ rq[2].error = NoError
    /\ rq[1].resp.buffer # rq[2].resp.buffer
    /\ spans[1].status.code = "Unset" /\ spans[2].status.code = "Error"


\* C16 (custom header overrides standard propagation): when MF-X-TRACE-ID
\* holds a valid trace identifier, the parent context of the invocation is
\* its marked context with only the span context replaced: the trace
\* identifier is the custom one, the span identifier a generated one, the
\* trace flags are zero and the baggage is the context's own, whatever the
\* traceparent and baggage headers hold; and the http.request.baggage
\* attribute is that context's baggage, not the baggage header's.
C16_CustomHeaderOverrides ==
    \A i \in DOMAIN rq :
        \A k \in 1..Len(rq[i].stack) :
            LET f == rq[i].stack[k]
                h == rq[i].header
            IN  (f.kind = "T" /\ f.pc \in {"fast", "full"} /\ IsValidTraceHeader(h.trace)) =>
                    /\ f.parent
                         = [f.ctx EXCEPT !.span = 0,
                                         !.sc = [traceID |-> TraceIDFromHex(h.trace)[2],
                                                 spanID |-> f.parent.sc.spanID,
                                                 flags |-> 0,
                                                 remote |-> TRUE]]
                    /\ f.parent.sc.spanID \in issued
                    /\ f.parent.baggage = f.ctx.baggage
                    /\ h.baggage # <<>> => f.parent.baggage # h.baggage
                    /\ IsValidSC(TraceParentSC(h.traceparent)) =>
                         /\ f.parent.sc.spanID # TraceParentSC(h.traceparent).spanID
                         /\ f.parent.sc.flags # TraceParentSC(h.traceparent).flags
                    /\ spans[f.span].traceID = TraceIDFromHex(h.trace)[2]
                    /\ \A e \in EventsNamed(f.span, tracingEventHttpRequest) :
                         /\ AttrValues(spans[f.span].events[e].attrs, tracingEventHttpRequestBaggage)
                                = {f.ctx.baggage}
                         /\ h.baggage # <<>> =>
                                h.baggage \notin AttrValues(spans[f.span].events[e].attrs,
                                                            tracingEventHttpRequestBaggage)

\* A request with a valid custom trace header, a valid traceparent header
\* naming another trace and a baggage header was traced on a context with
\* baggage of its own: the http.request event holds the context's baggage.
C16_Witness ==
    \E i \in DOMAIN rq :
        LET h == rq[i].header IN
        /\ provider = "real"
        /\ IsValidTraceHeader(h.trace)
        /\ IsValidSC(TraceParentSC(h.traceparent))
        /\ TraceParentSC(h.traceparent).traceID # TraceIDFromHex(h.trace)[2]
        /\ h.baggage # <<>>
        /\ Len(rq[i].stack) = 1
        /\ rq[i].stack[1].pc = "full"
        /\ rq[i].stack[1].parent.baggage = <<"own=1">>
        /\ spans[1].traceID = TraceIDFromHex(h.trace)[2]
        /\ AttrValues(spans[1].events[1].attrs, tracingEventHttpRequestBaggage) = {<<"own=1">>}


\* C17 (handler panic): once a handler has panicked the request stays
\* panicking, up to and beyond the outermost interceptor; every span the
\* panic has passed through is ended, once, with its status unset and, on the
\* full path, with the http.request event as its only event; nothing is done
\* on such a span after its end; and when the panic has left the chain every
\* span of the request is ended.
C17_PanicPropagates ==
    \A i \in DOMAIN rq :
        LET q == rq[i] IN
        /\ (\E k \in LogAt(i, "handler") : q.log[k].arg = "panic") => q.panicking
        /\ q.panicking =>
             /\ \A k \in LogAt(i, "status") \cup LogAt(i, "event") :
                    q.log[k].arg # tracingEventHttpResponse /\ q.log[k].op # "status"
             /\ Done(i) => \A s \in SpansOf(i) : spans[s].ends = 1
        /\ \A k \in LogAt(i, "end") :
             q.log[k].arg = "panic" =>
                LET s == q.log[k].span IN
                /\ q.panicking
                /\ spans[s].ends = 1
                /\ spans[s].status = Unset
                /\ \A j \in (k + 1)..Len(q.log) : q.log[j].span # s
                /\ provider # "default" =>
                     /\ Len(spans[s].events) = 1
                     /\ spans[s].events[1].name = tracingEventHttpRequest
                /\ provider = "default" => spans[s].events = <<>>

\* A handler set the request's error and then panicked below the full path:
\* the panic has left the chain and the span is ended with its status unset.
C17_Witness ==
    \E i \in DOMAIN rq :
        /\ provider = "real"
        /\ Done(i)
        /\ rq[i].panicking
        /\ rq[i].error # NoError
        /\ Len(rq[i].chain) = 3
        /\ Len(spans) = 1
        /\ spans[1].ends = 1
        /\ spans[1].status = Unset
        /\ Len(spans[1].events) = 1
        /\ \E k \in LogAt(i, "end") : rq[i].log[k].arg = "panic"


\* The interceptor positions of request i's chain that were entered with a
\* context lacking the marker: the first, and the one a handler delegated to
\* after it had replaced the request's context.
EnteredUnmarked(i) ==
    {k \in EnteredT(i) : k = 1 \/ (rq[i].ctxReplaced /\ rq[i].chain[k - 1] = "U")}

\* C18 (guard keyed on the current context): a step of the interceptor from
\* its entry starts a span, owned by the request, exactly if the request's
\* context at that moment lacks the marker, and skips exactly if it carries
\* it; so at any time the spans of a request are as many as the invocations
\* entered without the marker and its skips as many as the other invocations:
\* one span as long as no handler replaced the context, one more for the
\* invocation that follows a replacement.
C18_GuardOnCurrentContext ==
    /\ [](\A i \in DOMAIN rq :
            /\ Cardinality(SpansOf(i)) = Cardinality(EnteredUnmarked(i))
            /\ Cardinality({k \in LogAt(i, "next") : rq[i].log[k].arg = "skip"})
                 = Cardinality(EnteredT(i) \ EnteredUnmarked(i))
            /\ ~rq[i].ctxReplaced => Cardinality(SpansOf(i)) <= 1)
    /\ [][\A i \in DOMAIN rq :
            (Running(i, "T", {"call"}) /\ rq'[i] # rq[i]) =>
                /\ rq[i].ctx.marker <=> Len(spans') = Len(spans)
                /\ rq[i].ctx.marker <=> rq'[i].stack[Len(rq[i].stack)].pc = "skip"
                /\ ~rq[i].ctx.marker =>
                     /\ Len(spans') = Len(spans) + 1
                     /\ spans'[Len(spans')].owner = i
                     /\ rq'[i].ctx.marker
       ]_vars

\* Over the chain interceptor, handler, interceptor the handler replaced the
\* request's context with one lacking the marker: both invocations started a
\* span and none skipped.
C18_Witness ==
    \E i \in DOMAIN rq :
        /\ Done(i)
        /\ rq[i].chain = <<"T", "U", "T">>
        /\ rq[i].ctxReplaced
        /\ Cardinality(SpansOf(i)) = 2
        /\ EnteredUnmarked(i) = {1, 3}
        /\ \A k \in LogAt(i, "next") : rq[i].log[k].arg # "skip"

====
